---- MODULE Spec2Model ----
(***************************************************************************)
(* Host-side worker management of cli/ops/worker_host.rs: the session's    *)
(* workers table and id counter, the four host ops (op_create_worker,      *)
(* op_host_terminate_worker, op_host_post_message, op_host_get_message)    *)
(* and the worker thread started by run_worker_thread.                     *)
(*                                                                         *)
(* The host runs its ops on one thread: an op is one step, except that a   *)
(* thread join blocks the host (host.pc = "joining") until the worker      *)
(* thread has exited.  A failed `expect` is a panic of the host thread     *)
(* (host.pc = "panicked"), after which the process does nothing more.      *)
(***************************************************************************)
EXTENDS Integers, Sequences, FiniteSets, TLC

\* Bounds of the model.
MaxWorkers == 2      \* create_worker calls per session
MaxOps == 4          \* host op calls and reported errors per session
MaxErrors == 1       \* non-fatal Error events the workers report

Ids == 0 .. (MaxWorkers - 1)
Payloads == 1 .. 2

VARIABLES
  next_worker_id,  \* State.next_worker_id
  workers,         \* State.workers: id -> (join_handle, worker_handle)
  thread,          \* per id: position of the thread spawned for it
  cfg,             \* per id: Fate of the RunWorkerThreadArgs of its thread
  handshake,       \* per id: what the handshake channel carried
  terminated,      \* per id: the handle's termination signal
  inQ,             \* per id: host -> worker message channel
  inClosed,        \* per id: close_channel() was called on the host's sender
  outQ,            \* per id: worker -> host event channel
  pending,         \* per id: number of get_message futures not yet resolved
  host,            \* the host thread: idle, blocked in a join, or panicked
  last,            \* the last op that finished, and its result
  joinCount,       \* per id: how often its thread was joined
  reclaimer,       \* per id: the op that removed its table entry
  posted,          \* per id: payloads post_message accepted, in order
  received,        \* per id: payloads get_message returned as msg, in order
  produced,        \* per id: number of events of each type the worker sent
  returned,        \* ids returned by successful create_worker calls, in order
  termSeen,        \* per id: a get_message returned its TerminalError
  ops,             \* number of host op calls so far
  closes,          \* closes[id]: {type: close} results returned for id
  state_borrow     \* the RefCell of the session state: how it is borrowed

vars == << next_worker_id, workers, thread, cfg, handshake, terminated, inQ,
           inClosed, outQ, pending, host, last, joinCount, reclaimer, posted,
           received, produced, returned, termSeen, ops, closes,
          state_borrow >>

threadVars == << thread, cfg, handshake, terminated, inQ, inClosed, outQ,
                 produced >>
ghostVars == << joinCount, reclaimer, posted, received, returned, termSeen,
               ops, closes >>

----------------------------------------------------------------------------
\* Values

NoId == 0 - 1

Idle == [pc |-> "idle", op |-> "none", id |-> NoId, res |-> "none"]
Joining(op, id, res) == [pc |-> "joining", op |-> op, id |-> id, res |-> res]
Panicked == [pc |-> "panicked", op |-> "none", id |-> NoId, res |-> "none"]

Done(op, id, result) == [op |-> op, id |-> id, result |-> result]

\* WorkerEvent
Message(buf) == [type |-> "Message", data |-> buf]
ErrorEvent == [type |-> "Error", data |-> 0]
TerminalError == [type |-> "TerminalError", data |-> 0]
NoEvent == [type |-> "None", data |-> 0]

\* RunWorkerThreadArgs, as far as they decide what the thread does: whether
\* inline source was given and whether the specifier names a loadable module.
WorkerArgs ==
  { [has_source |-> TRUE, loadable |-> TRUE],
    [has_source |-> FALSE, loadable |-> TRUE],
    [has_source |-> FALSE, loadable |-> FALSE] }

\* What the args make of the thread: without inline source, a specifier that
\* cannot be loaded makes execute_module fail; any other evaluation succeeds
\* or throws.
Fate(args) ==
  IF ~args.has_source /\ ~args.loadable THEN "unloadable" ELSE "evaluable"

\* The table entry of a worker: the join handle of its thread and its handle.
Entry(id) == [join_handle |-> id, worker_handle |-> id]

Range(s) == {s[i] : i \in DOMAIN s}

IsPrefix(s, t) == Len(s) =< Len(t) /\ SubSeq(t, 1, Len(s)) = s

\* The payloads of the Message events of a queue of events, in order.
RECURSIVE MessageData(_)
MessageData(q) ==
  IF q = << >> THEN << >>
  ELSE IF Head(q).type = "Message"
       THEN << Head(q).data >> \o MessageData(Tail(q))
       ELSE MessageData(Tail(q))

----------------------------------------------------------------------------
\* The handle (WebWorkerHandle) and the worker's channels

\* terminate(): raises the termination signal the run loop checks.
HandleTerminate(term, id) == [term EXCEPT ![id] = TRUE]

\* The thread of the worker has ended: it returned, or it panicked.
Gone(id) == thread[id] \in {"exited", "panicked"}

\* The receiving end of the host -> worker channel is gone once the thread
\* has ended; the sending end is closed by close_channel().
ChannelClosed(id) == Gone(id) \/ inClosed[id]

\* get_event(): an event is ready, or the channel is closed and drained.
EventReady(id) == outQ[id] # << >> \/ Gone(id)
GetEvent(id) == IF outQ[id] # << >> THEN Head(outQ[id]) ELSE NoEvent

----------------------------------------------------------------------------
\* Pieces of the ops

\* state.next_worker_id += 1
NextWorkerIdStuck(n) == n
NextWorkerId(n) == n + 1

\* run_worker_thread(..)?  followed by  workers.insert(worker_id, ..)
InsertAlways(tbl, id, hs) == [w \in DOMAIN tbl \cup {id} |-> Entry(w)]
InsertWorker(tbl, id, hs) ==
  IF hs = "ok" THEN [w \in DOMAIN tbl \cup {id} |-> Entry(w)] ELSE tbl

\* state.workers.remove(&id)
RemoveNothing(tbl, id) == tbl
RemoveWorker(tbl, id) == [w \in DOMAIN tbl \ {id} |-> tbl[w]]

\* op_host_terminate_worker: the table after workers.remove(&id)
TerminateKeepsEntry(tbl, id) == tbl
TerminateRemove(tbl, id) == RemoveWorker(tbl, id)

\* op_host_terminate_worker: worker_handle.terminate()
TerminateCallSkipped(term, id) == term
TerminateCall(term, id) == HandleTerminate(term, id)

\* op_host_get_message: the events on which the op tears the worker down
TeardownOnCloseOnly(event) == event.type = "None"
TeardownOnAnyError(event) == event.type \in {"TerminalError", "Error", "None"}
TeardownOnTerminalOnly(event) == event.type = "TerminalError"
TeardownOn(event) == event.type \in {"TerminalError", "None"}

\* serialize_worker_event, and json!({ "type": "close" }) for no event
SerializeDropsData(event) ==
  IF event.type = "Message" THEN [type |-> "msg", data |-> 0]
  ELSE IF event.type = "TerminalError" THEN [type |-> "terminalError", data |-> 0]
  ELSE IF event.type = "Error" THEN [type |-> "error", data |-> 0]
  ELSE [type |-> "close", data |-> 0]
serialize_worker_event(event) ==
  IF event.type = "Message" THEN [type |-> "msg", data |-> event.data]
  ELSE IF event.type = "TerminalError" THEN [type |-> "terminalError", data |-> 0]
  ELSE IF event.type = "Error" THEN [type |-> "error", data |-> 0]
  ELSE [type |-> "close", data |-> 0]

\* op_host_get_message: the borrow of the state once the handle is cloned
\* (the block around state.borrow() ends before the future is built)
BorrowKeptByFuture(b) == "shared"
BorrowAfterLookup(b) == "none"

\* op_host_terminate_worker, op_host_get_message: the borrow_mut() guard of
\* the state is alive while join_handle.join() blocks.
BorrowDuringJoin == "mut"

\* join_handle.join().expect("Panic in worker thread"): the result of the op
\* that joins a thread in state t, res being the result it was about to give
JoinResultSwallowed(t, res) == res
JoinResult(t, res) == IF t = "panicked" THEN "JoinPanic" ELSE res

\* The clones of the worker's handle the host holds: the table entry, one per
\* pending get_message future, and the one the joining op took out of the
\* table (a local that lives until the op returns).
HandleDroppedBeforeJoin(h, id) == 0
HandleHeldByJoin(h, id) == IF h.pc = "joining" /\ h.id = id THEN 1 ELSE 0

\* op_host_get_message, teardown: if let Some(..) = state.workers.remove(&id)
EntryAssumed(tbl, id) == TRUE
EntryFound(tbl, id) == id \in DOMAIN tbl

\* op_host_post_message: what the op returns for the outcome of
\* worker_handle.post_message(msg)
PostResultIgnored(closed) == "ok"
PostResult(closed) == IF closed THEN "ChannelClosed" ELSE "ok"

\* run_worker_thread: what the spawned thread sends on the handshake channel
\* ("none": no thread was spawned)
HandshakeErrorDropped(outcome) == IF outcome = "ok" THEN "ok" ELSE "none"
HandshakeValue(outcome) ==
  IF outcome = "ok" THEN "ok"
  ELSE IF outcome = "construct_err" THEN "err" ELSE "none"

\* op_create_worker: state.check_unstable("Worker.deno") comes before the
\* id is taken, so a refused call leaves the counter as it is.
CounterOnRefusalTaken(n) == n + 1
CounterOnRefusal(n) == n

\* run_worker_thread: where the thread goes after executing the source
AfterEvaluateFallsThrough(result) == "running"
AfterEvaluate(result) == IF result = "err" THEN "exited" ELSE "running"

----------------------------------------------------------------------------
Init ==
  /\ next_worker_id = 0
  /\ workers = << >>
  /\ thread = [w \in Ids |-> "none"]
  /\ cfg = [w \in Ids |-> "evaluable"]
  /\ handshake = [w \in Ids |-> "none"]
  /\ terminated = [w \in Ids |-> FALSE]
  /\ inQ = [w \in Ids |-> << >>]
  /\ inClosed = [w \in Ids |-> FALSE]
  /\ outQ = [w \in Ids |-> << >>]
  /\ pending = [w \in Ids |-> 0]
  /\ host = Idle
  /\ last = Done("none", NoId, "none")
  /\ joinCount = [w \in Ids |-> 0]
  /\ reclaimer = [w \in Ids |-> "none"]
  /\ posted = [w \in Ids |-> << >>]
  /\ received = [w \in Ids |-> << >>]
  /\ produced = [w \in Ids |-> [Message |-> 0, Error |-> 0, TerminalError |-> 0]]
  /\ returned = << >>
  /\ termSeen = [w \in Ids |-> FALSE]
  /\ ops = 0
  /\ closes = [id \in Ids |-> 0]
  /\ state_borrow = "none"

----------------------------------------------------------------------------
\* What drives a session from outside: the op calls of the host and the
\* errors the workers' scripts report.
RECURSIVE ErrorsReported(_)
ErrorsReported(S) ==
  IF S = {} THEN 0
  ELSE LET w == CHOOSE x \in S : TRUE
       IN produced[w].Error + ErrorsReported(S \ {w})

Inputs == ops + ErrorsReported(Ids)

----------------------------------------------------------------------------
\* op_create_worker, when use_deno_namespace is set and the caller has not
\* opted in to unstable features: check_unstable ends the call (it returns
\* nothing the op could pass on, so it ends the host).
CreateWorkerRefused ==
  /\ UNCHANGED closes
  /\ host.pc = "idle"
  /\ next_worker_id < MaxWorkers
  /\ Inputs < MaxOps
  /\ ops' = ops + 1
  /\ next_worker_id' = CounterOnRefusal(next_worker_id)
  /\ host' = Panicked
  /\ last' = Done("create", NoId, "NotUnstable")
  /\ UNCHANGED << workers, pending, joinCount, reclaimer, posted, received,
                  returned, termSeen, state_borrow >>
  /\ UNCHANGED threadVars

\* op_create_worker.  outcome is what the collaborators do with the call:
\* "bad_specifier" (resolve_url fails), "spawn_err" (the thread cannot be
\* spawned), "construct_err" (create_web_worker fails in the thread) or "ok".
CreateWorker(args, outcome) ==
  /\ UNCHANGED closes
  /\ host.pc = "idle"
  /\ state_borrow = "none"
  /\ next_worker_id < MaxWorkers
  /\ Inputs < MaxOps
  /\ ops' = ops + 1
  /\ LET worker_id == next_worker_id
         hs == HandshakeValue(outcome)
     IN
       /\ next_worker_id' = NextWorkerId(next_worker_id)
       /\ handshake' = [handshake EXCEPT ![worker_id] = hs]
       /\ thread' = [thread EXCEPT ![worker_id] =
                       IF outcome = "ok" THEN "evaluating"
                       ELSE IF outcome = "construct_err" THEN "exited"
                       ELSE "none"]
       /\ cfg' = [cfg EXCEPT ![worker_id] = IF hs = "ok" THEN Fate(args) ELSE @]
       /\ workers' = InsertWorker(workers, worker_id, hs)
       /\ returned' = IF hs = "ok" THEN Append(returned, worker_id) ELSE returned
       /\ last' = Done("create", worker_id, IF hs = "ok" THEN "ok" ELSE "err")
  /\ UNCHANGED << terminated, inQ, inClosed, outQ, pending, host, joinCount,
                  reclaimer, posted, received, produced, termSeen,
                  state_borrow >>

\* op_host_terminate_worker
TerminateWorker(id) ==
  /\ UNCHANGED closes
  /\ host.pc = "idle"
  /\ state_borrow = "none"
  /\ Inputs < MaxOps
  /\ ops' = ops + 1
  /\ IF id \in DOMAIN workers
     THEN /\ workers' = TerminateRemove(workers, id)
          /\ terminated' = TerminateCall(terminated, id)
          /\ reclaimer' = [reclaimer EXCEPT ![id] = "terminate"]
          /\ host' = Joining("terminate", id, "ok")
          /\ state_borrow' = BorrowDuringJoin
          /\ UNCHANGED last
     ELSE /\ host' = Panicked
          /\ last' = Done("terminate", id, "UnknownId")
          /\ UNCHANGED << workers, terminated, reclaimer, state_borrow >>
  /\ UNCHANGED << next_worker_id, thread, cfg, handshake, inQ, inClosed, outQ,
                  pending, joinCount, posted, received, produced, returned,
                  termSeen >>

\* join_handle.join() returns once the thread has exited.
JoinComplete ==
  /\ UNCHANGED closes
  /\ host.pc = "joining"
  /\ Gone(host.id)
  /\ joinCount' = [joinCount EXCEPT ![host.id] = @ + 1]
  /\ LET result == JoinResult(thread[host.id], host.res)
     IN /\ last' = Done(host.op, host.id, result)
        /\ termSeen' = [termSeen EXCEPT ![host.id] =
                          @ \/ result = "terminalError"]
        /\ host' = IF result = "JoinPanic" THEN Panicked ELSE Idle
  /\ state_borrow' = "none"
  /\ UNCHANGED << next_worker_id, workers, pending, reclaimer, posted,
                  received, returned, ops >>
  /\ UNCHANGED threadVars

\* op_host_post_message
PostMessage(id, msg) ==
  /\ UNCHANGED closes
  /\ host.pc = "idle"
  /\ state_borrow # "mut"
  /\ Inputs < MaxOps
  /\ ops' = ops + 1
  /\ IF id \notin DOMAIN workers
     THEN /\ host' = Panicked
          /\ last' = Done("post", id, "UnknownId")
          /\ UNCHANGED << inQ, posted >>
     ELSE IF ChannelClosed(id)
     THEN /\ last' = Done("post", id, PostResult(TRUE))
          /\ UNCHANGED << inQ, posted, host >>
     ELSE /\ inQ' = [inQ EXCEPT ![id] = Append(@, msg)]
          /\ posted' = [posted EXCEPT ![id] = Append(@, msg)]
          /\ last' = Done("post", id, PostResult(FALSE))
          /\ UNCHANGED host
  /\ UNCHANGED << next_worker_id, workers, thread, cfg, handshake, terminated,
                  inClosed, outQ, pending, joinCount, reclaimer, received,
                  produced, returned, termSeen, state_borrow >>

\* op_host_get_message, up to the return of the pending future
GetMessageStart(id) ==
  /\ UNCHANGED closes
  /\ host.pc = "idle"
  /\ state_borrow # "mut"
  /\ Inputs < MaxOps
  /\ ops' = ops + 1
  /\ IF id \notin DOMAIN workers
     THEN /\ host' = Panicked
          /\ last' = Done("get", id, "UnknownId")
          /\ UNCHANGED << pending, state_borrow >>
     ELSE /\ pending' = [pending EXCEPT ![id] = @ + 1]
          /\ state_borrow' = BorrowAfterLookup(state_borrow)
          /\ last' = Done("get", id, "pending")
          /\ UNCHANGED host
  /\ UNCHANGED << next_worker_id, workers, joinCount, reclaimer, posted,
                  received, returned, termSeen >>
  /\ UNCHANGED threadVars

\* op_host_get_message, the future: get_event() resolved
GetMessageResolve(id) ==
  /\ host.pc = "idle"
  /\ pending[id] > 0
  /\ EventReady(id)
  /\ LET event == GetEvent(id)
         response == serialize_worker_event(event)
     IN
       /\ pending' = [pending EXCEPT ![id] = @ - 1]
       /\ outQ' = [outQ EXCEPT ![id] = IF @ # << >> THEN Tail(@) ELSE @]
       /\ received' = [received EXCEPT ![id] =
                         IF response.type = "msg"
                         THEN Append(@, response.data) ELSE @]
       /\ closes' = [closes EXCEPT ![id] =
                       IF response.type = "close" THEN @ + 1 ELSE @]
       /\ IF TeardownOn(event) /\ EntryFound(workers, id)
          THEN /\ workers' = RemoveWorker(workers, id)
               /\ inClosed' = [inClosed EXCEPT ![id] = TRUE]
               /\ reclaimer' = [reclaimer EXCEPT ![id] = "get"]
               /\ host' = Joining("get", id, response.type)
               /\ state_borrow' = BorrowDuringJoin
               /\ UNCHANGED << last, termSeen >>
          ELSE /\ last' = Done("get", id, response.type)
               /\ termSeen' = [termSeen EXCEPT ![id] =
                                 @ \/ response.type = "terminalError"]
               /\ UNCHANGED << workers, inClosed, reclaimer, host,
                               state_borrow >>
  /\ UNCHANGED << next_worker_id, thread, cfg, handshake, terminated, inQ,
                  joinCount, posted, produced, returned, ops >>

----------------------------------------------------------------------------
\* The worker thread (the closure spawned by run_worker_thread)

\* The receiving end of the worker -> host channel lives in the handle: it
\* is alive while the host holds a clone of the handle.
HostHandles(id) ==
  (IF id \in DOMAIN workers THEN 1 ELSE 0) + pending[id]
    + HandleHeldByJoin(host, id)

\* sender.try_send(event): fails only if the receiving end is gone (a fresh
\* clone of the sender always has a free slot).
TrySend(id) == IF HostHandles(id) > 0 THEN "ok" ELSE "disconnected"

Send(id, event) ==
  /\ outQ' = [outQ EXCEPT ![id] = Append(@, event)]
  /\ produced' = [produced EXCEPT ![id][event.type] = @ + 1]

\* worker.execute(source) or execute_module(specifier), and what follows.
\* result is the outcome of the evaluation: a module that cannot be loaded
\* fails; a terminated isolate may abort the evaluation with an error.
ThreadEvaluate(id) ==
  /\ host.pc # "panicked"
  /\ thread[id] = "evaluating"
  /\ \E result \in {"ok", "err"} :
       /\ cfg[id] = "unloadable" => result = "err"
       /\ IF result = "err" /\ TrySend(id) = "ok"
          THEN /\ Send(id, TerminalError)
               /\ thread' = [thread EXCEPT ![id] = AfterEvaluate(result)]
          ELSE IF result = "err"
          THEN /\ thread' = [thread EXCEPT ![id] = "panicked"]
               /\ UNCHANGED << outQ, produced >>
          ELSE /\ thread' = [thread EXCEPT ![id] = AfterEvaluate(result)]
               /\ UNCHANGED << outQ, produced >>
       /\ inQ' = [inQ EXCEPT ![id] =
                    IF thread'[id] = "running" THEN @ ELSE << >>]
  /\ UNCHANGED << next_worker_id, workers, cfg, handshake, terminated,
                  inClosed, pending, host, last >>
  /\ UNCHANGED << ghostVars, state_borrow >>

\* One iteration of the run loop (rt.block_on(worker)): stop on the
\* termination signal, else handle the next message (the worker echoes it),
\* else stop if the host closed the channel.
ThreadPoll(id) ==
  /\ host.pc # "panicked"
  /\ thread[id] = "running"
  /\ IF terminated[id]
     THEN /\ thread' = [thread EXCEPT ![id] = "exited"]
          /\ inQ' = [inQ EXCEPT ![id] = << >>]
          /\ UNCHANGED << outQ, produced >>
     ELSE IF inQ[id] # << >>
     THEN /\ Send(id, Message(Head(inQ[id])))
          /\ inQ' = [inQ EXCEPT ![id] = Tail(@)]
          /\ UNCHANGED thread
     ELSE /\ inClosed[id]
          /\ thread' = [thread EXCEPT ![id] = "exited"]
          /\ UNCHANGED << inQ, outQ, produced >>
  /\ UNCHANGED << next_worker_id, workers, cfg, handshake, terminated,
                  inClosed, pending, host, last >>
  /\ UNCHANGED << ghostVars, state_borrow >>

\* The worker's script reports a recoverable error.
ThreadReportError(id) ==
  /\ host.pc # "panicked"
  /\ thread[id] = "running"
  /\ ~terminated[id]
  /\ ErrorsReported(Ids) < MaxErrors
  /\ Inputs < MaxOps
  /\ Send(id, ErrorEvent)
  /\ UNCHANGED << next_worker_id, workers, thread, cfg, handshake, terminated,
                  inQ, inClosed, pending, host, last >>
  /\ UNCHANGED << ghostVars, state_borrow >>

\* The worker's runtime drains and the run loop completes by itself.
ThreadComplete(id) ==
  /\ host.pc # "panicked"
  /\ thread[id] = "running"
  /\ inQ[id] = << >>
  /\ thread' = [thread EXCEPT ![id] = "exited"]
  /\ UNCHANGED << next_worker_id, workers, cfg, handshake, terminated, inQ,
                  inClosed, outQ, produced, pending, host, last >>
  /\ UNCHANGED << ghostVars, state_borrow >>

\* rt.block_on(worker).expect("Panic in event loop"): the run loop fails
\* and the thread panics.
ThreadPanic(id) ==
  /\ host.pc # "panicked"
  /\ thread[id] = "running"
  /\ thread' = [thread EXCEPT ![id] = "panicked"]
  /\ inQ' = [inQ EXCEPT ![id] = << >>]
  /\ UNCHANGED << next_worker_id, workers, cfg, handshake, terminated,
                  inClosed, outQ, produced, pending, host, last >>
  /\ UNCHANGED << ghostVars, state_borrow >>

----------------------------------------------------------------------------
Next ==
  \/ \E args \in WorkerArgs,
        oc \in {"ok", "bad_specifier", "spawn_err", "construct_err"} :
       CreateWorker(args, oc)
  \/ CreateWorkerRefused
  \/ \E id \in Range(returned) : TerminateWorker(id)
  \/ JoinComplete
  \/ \E id \in Range(returned) :
       \E msg \in Payloads : PostMessage(id, msg)
  \/ \E id \in Range(returned) : GetMessageStart(id)
  \/ \E id \in Ids : GetMessageResolve(id)
  \/ \E id \in Ids : ThreadEvaluate(id)
  \/ \E id \in Ids : ThreadPoll(id)
  \/ \E id \in Ids : ThreadReportError(id)
  \/ \E id \in Ids : ThreadComplete(id)
  \/ \E id \in Ids : ThreadPanic(id)

Spec == Init /\ [][Next]_vars

\* The worker threads are scheduled by the operating system and a blocked
\* join returns once its thread has exited.
FairSpec ==
  /\ Spec
  /\ \A id \in Ids : WF_vars(ThreadEvaluate(id) \/ ThreadPoll(id))
  /\ WF_vars(JoinComplete)

\* The host's event loop also polls a get_message future whose event is
\* ready.
FairHostSpec ==
  /\ FairSpec
  /\ \A id \in Ids : WF_vars(GetMessageResolve(id))

TypeOK ==
  /\ next_worker_id \in 0 .. MaxWorkers
  /\ DOMAIN workers \subseteq Ids
  /\ host.pc \in {"idle", "joining", "panicked"}
  /\ state_borrow \in {"none", "shared", "mut"}
  /\ closes \in [Ids -> 0 .. MaxOps]
  /\ ops \in 0 .. MaxOps

----------------------------------------------------------------------------
\* Properties

\* C1: when terminate_worker and a get_message race on one worker, exactly
\* one of them reclaims it (no thread is joined twice, no reclaimed thread
\* stays unjoined once the host is idle again) and the one that comes second
\* finds the entry gone and does nothing: in particular a terminate_worker
\* that follows the reclaim by get_message does not abort.
C1_RaceLoserDoesNothing ==
  \A w \in Ids :
    /\ joinCount[w] =< 1
    /\ (reclaimer[w] # "none" /\ host.pc = "idle") => joinCount[w] = 1
    /\ ~ ( /\ reclaimer[w] = "get"
           /\ last = Done("terminate", w, "UnknownId")
           /\ host.pc = "panicked" )

\* C2: an id in the table names a spawned thread that has not been joined; a
\* removed entry is joined within the op that removed it, the host doing
\* nothing else in between; a thread is joined once, by the op that removed
\* its entry.
C2_Inv ==
  /\ \A w \in DOMAIN workers : joinCount[w] = 0 /\ thread[w] # "none"
  /\ \A w \in Ids :
       (reclaimer[w] # "none" /\ joinCount[w] = 0) =>
         (host.pc = "joining" /\ host.id = w)
C2_JoinStep ==
  \A w \in Ids :
    joinCount'[w] # joinCount[w] =>
      /\ joinCount'[w] = 1
      /\ w \notin DOMAIN workers
      /\ host.pc = "joining" /\ host.id = w
      /\ reclaimer[w] = host.op
C2_TableEntriesUnjoined == [] C2_Inv /\ [][C2_JoinStep]_vars
C2_Witness ==
  \E w \in Ids, v \in DOMAIN workers :
    /\ joinCount[w] = 1 /\ w \notin DOMAIN workers
    /\ thread[v] = "exited"

\* C3: the id a successful create_worker returns is not in the table, was
\* not returned before and is larger than every id returned before; failed
\* calls never lower the counter.
C3_Step ==
  /\ next_worker_id' >= next_worker_id
  /\ returned' # returned =>
       LET id == returned'[Len(returned')] IN
         /\ returned' = Append(returned, id)
         /\ id \notin DOMAIN workers
         /\ \A i \in DOMAIN returned : returned[i] < id
C3_FreshIds == [][C3_Step]_vars
C3_Witness == Len(returned) = 2 /\ Cardinality(DOMAIN workers) = 2

\* C4: when the construction of the worker fails in the spawned thread, the
\* handshake carries the error, the thread exits, create_worker returns an
\* error and the table is as it was before the call.
C4_Step ==
  \A id \in Ids :
    (handshake[id] = "none" /\ handshake'[id] = "err") =>
      /\ thread'[id] = "exited"
      /\ last' = Done("create", id, "err")
      /\ workers' = workers
      /\ returned' = returned
C4_FailedConstructionLeavesTable == [][C4_Step]_vars
C4_Witness ==
  \E id \in Ids :
    /\ handshake[id] = "err"
    /\ DOMAIN workers # {}
    /\ id \notin DOMAIN workers

\* C5: when a get_message has yielded a terminal error or the closure, the
\* worker's id is not in the table and its thread has been joined.
C5_TeardownOnTerminalOrClose ==
  (last.op = "get" /\ last.result \in {"terminalError", "close"}) =>
    /\ last.id \notin DOMAIN workers
    /\ joinCount[last.id] = 1
    /\ thread[last.id] = "exited"
C5_Witness ==
  /\ last.op = "get" /\ last.result = "terminalError"
  /\ reclaimer[last.id] = "get"
  /\ host.pc = "idle"

\* C6: terminate_worker and the teardown of get_message are no-ops for an id
\* whose entry was already reclaimed: no such call aborts the host.
C6_RemoveAndJoinIdempotent ==
  (host.pc = "panicked" /\ last.op = "terminate"
     /\ last.result = "UnknownId") =>
    reclaimer[last.id] = "none"

\* C7: once a get_message for w has returned the terminal error, no later
\* post_message for w delivers a message, no later get_message for w is
\* accepted, both fail with an unknown-id or closed-channel condition, and
\* no create_worker returns w.
C7_Step ==
  \A w \in Ids :
    termSeen[w] =>
      /\ posted'[w] = posted[w]
      /\ inQ'[w] = inQ[w]
      /\ pending'[w] =< pending[w]
      /\ received'[w] = received[w]
      /\ returned' # returned => returned'[Len(returned')] # w
      /\ ( /\ ops' = ops + 1 /\ host'.pc # "joining"
           /\ last'.id = w /\ last'.op \in {"post", "get"} ) =>
           last'.result \in {"UnknownId", "ChannelClosed"}
C7_DeadAfterTerminalError == [][C7_Step]_vars
C7_Witness ==
  \E w \in Ids :
    /\ termSeen[w]
    /\ last = Done("post", w, "UnknownId")

\* C8: terminate_worker returns only after the thread has been joined, and
\* with the worker thread scheduled fairly the join it blocks in completes.
C8_Returned ==
  (last.op = "terminate" /\ last.result = "ok") =>
    (joinCount[last.id] = 1 /\ thread[last.id] = "exited")
C8_TerminateJoins ==
  /\ [] C8_Returned
  /\ \A w \in Ids :
       (host.pc = "joining" /\ host.op = "terminate" /\ host.id = w)
         ~> (joinCount[w] = 1 /\ (host.pc = "idle" \/ thread[w] = "panicked"))
C8_Witness ==
  \E w \in Ids :
    /\ last = Done("terminate", w, "ok")
    /\ terminated[w]
    /\ produced[w].TerminalError = 0

\* C9: the msg events get_message returns for an echoing worker carry the
\* posted payloads in the order of the posts; while the worker runs no
\* message is lost, duplicated or reordered on the way.
C9_EchoInOrder ==
  \A w \in Ids :
    /\ IsPrefix(received[w] \o MessageData(outQ[w]), posted[w])
    /\ thread[w] \in {"evaluating", "running"} =>
         received[w] \o MessageData(outQ[w]) \o inQ[w] = posted[w]
C9_Witness ==
  \E w \in Ids :
    /\ Len(posted[w]) = 2
    /\ posted[w][1] # posted[w][2]
    /\ received[w] = << posted[w][1] >>

\* C10: a worker without inline source whose module cannot be loaded sends
\* one TerminalError event and no Message event, never enters the run loop,
\* and once a get_message has returned that event its id is not in the
\* table.
Unloadable(w) == handshake[w] = "ok" /\ cfg[w] = "unloadable"
C10_UnloadableWorker ==
  \A w \in Ids :
    Unloadable(w) =>
      /\ produced[w].Message = 0
      /\ produced[w].TerminalError = (IF thread[w] = "exited" THEN 1 ELSE 0)
      /\ thread[w] \in {"evaluating", "exited"}
      /\ termSeen[w] => w \notin DOMAIN workers
C10_Witness ==
  \E w \in Ids :
    /\ Unloadable(w)
    /\ termSeen[w]
    /\ reclaimer[w] = "get"
    /\ host.pc = "idle"

----------------------------------------------------------------------------
\* Steps of the ops, as the properties below recognise them

\* A call of op_host_post_message for w has just run.
PostStep(w) ==
  ops' = ops + 1 /\ host'.pc # "joining" /\ last'.op = "post" /\ last'.id = w

\* A pending op_host_get_message for w has just got its event.
ResolveStep(w) == pending'[w] = pending[w] - 1

\* The worker w has terminated: its thread is gone or it was reclaimed.
Dead(w) == thread[w] \in {"exited", "panicked"} \/ reclaimer[w] # "none"

\* C11 (as amended): post_message for a worker that has terminated never
\* accepts the message; it reports ChannelClosed to the caller while the
\* entry is still in the table and aborts on the unknown id once the entry
\* was removed.
C11_Step ==
  \A w \in Ids :
    (PostStep(w) /\ Dead(w)) =>
      /\ posted' = posted /\ inQ' = inQ
      /\ IF w \in DOMAIN workers
         THEN last'.result = "ChannelClosed" /\ host' = host
         ELSE last'.result = "UnknownId" /\ host'.pc = "panicked"
C13_Inv ==
  \A id \in Ids :
    /\ thread[id] # "none" <=> handshake[id] # "none"
    /\ handshake[id] = "ok" <=> id \in Range(returned)
C13_Step ==
  \A id \in Ids :
    handshake'[id] # handshake[id] =>
      /\ handshake[id] = "none" /\ id = next_worker_id
      /\ last'.op = "create" /\ last'.id = id
      /\ IF handshake'[id] = "ok"
         THEN /\ last'.result = "ok"
              /\ thread'[id] = "evaluating"
              /\ outQ'[id] = << >> /\ produced'[id] = produced[id]
         ELSE /\ last'.result = "err"
              /\ thread'[id] = "exited"
C13_OneHandshake == [] C13_Inv /\ [][C13_Step]_vars
C13_Witness ==
  \E id \in Ids :
    /\ handshake[id] = "ok" /\ thread[id] = "evaluating"
    /\ last = Done("create", id, "ok")

\* C15: a create_worker that asks for the Deno namespace without the caller
\* having opted in to unstable features ends before it changes anything: the
\* counter, the table and the threads are as before.
C15_Step ==
  (host.pc = "idle" /\ last' = Done("create", NoId, "NotUnstable")
     /\ ops' = ops + 1) =>
    /\ next_worker_id' = next_worker_id
    /\ workers' = workers /\ returned' = returned
    /\ thread' = thread /\ handshake' = handshake
C15_RefusedBeforeAnyChange == [][C15_Step]_vars
C15_Witness ==
  /\ last = Done("create", NoId, "NotUnstable")
  /\ next_worker_id = 1
  /\ DOMAIN workers = {0}

\* C16: a get_message that returns a msg or a (non-fatal) error event leaves
\* the table as it is, joins nothing and leaves the channels open.
C16_Step ==
  \A w \in Ids :
    (ResolveStep(w) /\ GetEvent(w).type \in {"Message", "Error"}) =>
      /\ workers' = workers
      /\ joinCount' = joinCount /\ reclaimer' = reclaimer
      /\ inClosed' = inClosed /\ terminated' = terminated
      /\ host' = host
      /\ last' = Done("get", w, serialize_worker_event(GetEvent(w)).type)
C16_EventKeepsWorker == [][C16_Step]_vars
C16_Witness ==
  \E w \in DOMAIN workers :
    /\ last = Done("get", w, "error")
    /\ thread[w] = "running"
    /\ host.pc = "idle"

\* C12: while a reclaim is blocked in the join of a worker's thread, the
\* entry is out of the table, the state is not borrowed and the ops on the
\* other workers can run.
C12_JoinDoesNotStall ==
  host.pc = "joining" =>
    /\ host.id \notin DOMAIN workers
    /\ state_borrow = "none"
    /\ (Inputs < MaxOps) =>
         \A v \in DOMAIN workers : ENABLED GetMessageStart(v)

\* C19: while a get_message is pending (and the host is not inside another
\* op) the state is not borrowed, so create_worker, terminate_worker,
\* post_message and further get_message calls can run.
C19_PendingHoldsNoBorrow ==
  (host.pc = "idle" /\ \E w \in Ids : pending[w] > 0) =>
    /\ state_borrow = "none"
    /\ (Inputs < MaxOps) =>
         /\ \A v \in DOMAIN workers :
              /\ ENABLED TerminateWorker(v)
              /\ ENABLED GetMessageStart(v)
              /\ ENABLED PostMessage(v, 1)
         /\ (next_worker_id < MaxWorkers) =>
              ENABLED CreateWorker([has_source |-> TRUE, loadable |-> TRUE],
                                   "ok")
C19_Witness ==
  \E w \in Ids :
    /\ pending[w] > 0
    /\ reclaimer[w] = "terminate" /\ joinCount[w] = 1
    /\ Len(returned) = 2
    /\ host.pc = "idle"

\* The run loop of worker w completed by itself: no termination signal and
\* no TerminalError.
NormalExit(w) ==
  /\ thread[w] = "exited"
  /\ ~terminated[w]
  /\ produced[w].TerminalError = 0

\* C14 as stated: a worker whose run loop completed normally yields the
\* closure result at most once, however the get_message calls interleave.
C14_Original ==
  \A w \in Ids : NormalExit(w) => closes[w] =< 1

\* C14: a get_message answers {type: close} only when the worker's thread is
\* gone and no event is left in its queue (a queued event is delivered
\* first); the first closure removes the entry, so no get_message can be
\* issued for the id afterwards: the closure is returned once to each
\* get_message that was pending when the worker closed, hence exactly once
\* when the calls are issued one at a time.
C14_Inv ==
  \A w \in Ids :
    closes[w] >= 1 =>
      /\ w \notin DOMAIN workers
      /\ outQ[w] = << >>
      /\ thread[w] \in {"exited", "panicked"}
C14_Step ==
  \A w \in Ids :
    /\ closes'[w] # closes[w] =>
         /\ closes'[w] = closes[w] + 1 /\ ResolveStep(w)
         /\ outQ[w] = << >> /\ thread[w] \in {"exited", "panicked"}
         /\ received'[w] = received[w]
    /\ (ResolveStep(w) /\ outQ[w] # << >>) =>
         /\ closes'[w] = closes[w]
         /\ outQ'[w] = Tail(outQ[w])
    /\ closes[w] >= 1 =>
         /\ pending'[w] =< pending[w]
         /\ closes'[w] + pending'[w] = closes[w] + pending[w]
    /\ (closes[w] = 0 /\ closes'[w] = 1 /\ pending[w] = 1) =>
         (pending'[w] = 0 /\ w \notin DOMAIN workers')
C14_ClosePerPendingGet == [] C14_Inv /\ [][C14_Step]_vars
C14_Witness ==
  \E w \in Ids :
    /\ NormalExit(w)
    /\ closes[w] = 1 /\ pending[w] = 0
    /\ Len(received[w]) = 1
    /\ reclaimer[w] = "get" /\ joinCount[w] = 1
    /\ host.pc = "idle"

\* C17: every join of a thread that panicked aborts the op that performs
\* it (terminate_worker, or the teardown of get_message) with a hard
\* failure; no such op returns a normal result.
C17_Step ==
  \A w \in Ids :
    (joinCount'[w] = joinCount[w] + 1 /\ thread[w] = "panicked") =>
      /\ host.op \in {"terminate", "get"} /\ host.id = w
      /\ host'.pc = "panicked"
      /\ last' = Done(host.op, w, "JoinPanic")
C17_Inv ==
  \A w \in Ids :
    (thread[w] = "panicked" /\ joinCount[w] > 0) =>
      (host.pc = "panicked" /\ last.id = w /\ last.result = "JoinPanic")
C17_JoinPanicAborts == [] C17_Inv /\ [][C17_Step]_vars
C17_Witness ==
  \E w \in Ids :
    /\ thread[w] = "panicked" /\ joinCount[w] = 1
    /\ reclaimer[w] = "get"
    /\ last = Done("get", w, "JoinPanic")
    /\ host.pc = "panicked"

\* C18: while a worker's thread evaluates its source the host holds a clone
\* of its handle, so when the evaluation fails the TerminalError is sent (the
\* thread does not panic), stays queued until a get_message takes it, and
\* the thread exits without entering the run loop.
C18_Inv ==
  \A w \in Ids :
    /\ (thread[w] = "evaluating" /\ host.pc # "panicked") => TrySend(w) = "ok"
    /\ produced[w].TerminalError = 1 =>
         \/ \E i \in DOMAIN outQ[w] : outQ[w][i] = TerminalError
         \/ termSeen[w]
         \/ host.pc = "joining" /\ host.id = w /\ host.res = "terminalError"
C18_Step ==
  \A w \in Ids :
    (thread[w] = "evaluating" /\ thread'[w] # "evaluating") =>
      \/ /\ thread'[w] = "running"
         /\ outQ'[w] = outQ[w] /\ produced'[w] = produced[w]
      \/ /\ thread'[w] = "exited"
         /\ outQ'[w] = Append(outQ[w], TerminalError)
         /\ produced'[w].TerminalError = 1
C18_TerminalErrorSent == [] C18_Inv /\ [][C18_Step]_vars
C18_Witness ==
  \E w \in Ids :
    /\ thread[w] = "exited" /\ produced[w].TerminalError = 1
    /\ terminated[w] /\ reclaimer[w] = "terminate"
    /\ posted[w] # << >>
    /\ outQ[w] = << TerminalError >>

\* C20 as stated, its result part: a get_message pending on a worker that
\* terminate_worker reclaimed completes with closure or an error, and leaves
\* the table unchanged.
C20_OriginalStep ==
  \A w \in Ids :
    (ResolveStep(w) /\ reclaimer[w] = "terminate") =>
      /\ workers' = workers
      /\ last'.op = "get" /\ last'.id = w
      /\ last'.result \in {"close", "error", "terminalError"}
C20_Original == [][C20_OriginalStep]_vars

\* C20: a get_message pending on a worker that terminate_worker reclaimed
\* completes (unless the host aborted) once the join has returned; it yields
\* the next event still queued, of any type, or closure when none is queued,
\* and leaves the table and the joined thread alone.
C20_Step ==
  \A w \in Ids :
    (ResolveStep(w) /\ reclaimer[w] = "terminate") =>
      /\ workers' = workers /\ joinCount' = joinCount
      /\ host.pc = "idle" /\ host'.pc = "idle"
      /\ last'.op = "get" /\ last'.id = w
      /\ IF outQ[w] = << >>
         THEN last'.result = "close"
         ELSE last'.result = serialize_worker_event(Head(outQ[w])).type
C20_PendingGetCompletes ==
  /\ [][C20_Step]_vars
  /\ \A w \in Ids :
       (reclaimer[w] = "terminate" /\ pending[w] > 0)
         ~> (pending[w] = 0 \/ host.pc = "panicked")
C20_Witness ==
  \E w \in Ids :
    /\ reclaimer[w] = "terminate" /\ joinCount[w] = 1
    /\ pending[w] = 0
    /\ last = Done("get", w, "msg")
    /\ host.pc = "idle"

====
